---- MODULE Spec2Model ----
(***************************************************************************)
(* The declaration-order resolver of generate() (src/src/core/generate.ts) *)
(* as a state machine: one action per evaluation of the `while` test, per  *)
(* invocation of the forEach callback, per `n++`, and one for the code     *)
(* that follows the loop up to the return.                                 *)
(***************************************************************************)
EXTENDS Integers, Sequences, FiniteSets

\* ---------------------------------------------------------------- bounds
\* Largest number of extracted declarations (zodSchemas.length).
MaxCands == 3
\* Largest value of the maxRun option that is tried (smallest is -1).
MaxRun == 3
\* Largest total number of dependency names over all the candidates.
MaxEdges == 2

\* ------------------------------------------------------- naming function
\* The identifiers a source file may declare, in the order in which a list
\* of candidates introduces them (see CanonicalNames).
TypeNames == <<"A", "B", "C", "D">>

\* camel() of the `case` package on a one-letter identifier.
camel(id) ==
  CASE id = "A" -> "a"
    [] id = "a" -> "a"
    [] id = "B" -> "b"
    [] id = "C" -> "c"
    [] id = "D" -> "d"

\* The default of the getSchemaName option.
getSchemaName(id) == camel(id) \o "Schema"

Range(s) == {s[i] : i \in DOMAIN s}

\* Every name a dependency list can hold: getDependencyName is getSchemaName.
VarNames == {getSchemaName(t) : t \in Range(TypeNames)}

\* ------------------------------------------------------------------ state
VARIABLES
  zodSchemas,               \* the candidates, in extraction order
  maxRun,                   \* the maxRun option
  statements,               \* Map varName -> {typeName, value}, in insertion order
  typeImports,              \* Set of typeName, in insertion order
  n,                        \* the round counter
  pc,                       \* "while" | "forEach" | "done"
  todo,                     \* what the forEach still has to visit (indices of zodSchemas)
  errors,                   \* the returned errors
  imports,                  \* Array.from(typeImports.values())
  hasCircularDependencies,  \* the returned flag
  log,                      \* history: one record per statements.set call
  run,                      \* history: 1 for the first call of generate, 2 for the second
  prev                      \* history: what the first call returned

vars == <<zodSchemas, maxRun, statements, typeImports, n, pc, todo, errors,
          imports, hasCircularDependencies, log, run, prev>>

\* ----------------------------------------------------- Map and Set of JS
\* Map.prototype.has
MapHas(m, k) == \E p \in DOMAIN m : m[p].key = k

\* A set that leaves a known key alone.
MapSetKeepFirst(m, k, v) ==
  IF MapHas(m, k) THEN m ELSE Append(m, [key |-> k, val |-> v])

\* Map.prototype.set: a new key goes last, a known key keeps its position
\* and takes the new value.
MapSet(m, k, v) ==
  IF MapHas(m, k)
    THEN [p \in DOMAIN m |-> IF m[p].key = k THEN [key |-> k, val |-> v] ELSE m[p]]
    ELSE Append(m, [key |-> k, val |-> v])

\* Set.prototype.add: a new element goes last, a known one changes nothing.
SetAdd(s, x) == IF x \in Range(s) THEN s ELSE Append(s, x)

\* --------------------------------------------------------------- helpers
\* The rewritten statement: the same declaration with its self-reference
\* deferred and annotated with the type typeName.
transformRecursiveSchema(statement, typeName) ==
  [statement EXCEPT !.lazy = TRUE]

\* A test that takes a candidate for circular only when it depends on
\* nothing but itself.
isCircularOnlySelf(c) == c.dependencies = {c.varName}

\* dependencies.includes(varName)
isCircular(c) == c.varName \in c.dependencies

\* A second filter with its test inverted: it keeps the resolved names.
missingDependenciesInverted(c, st) ==
  {dep \in c.dependencies \ {c.varName} : MapHas(st, dep)}

\* dependencies.filter(dep => dep !== varName).filter(dep => !statements.has(dep))
missingDependencies(c, st) ==
  {dep \in c.dependencies \ {c.varName} : ~MapHas(st, dep)}

\* zodSchemas.filter(({ varName }) => !statements.has(varName)), as indices
Unresolved(zs, st) ==
  SelectSeq([i \in DOMAIN zs |-> i], LAMBDA i : ~MapHas(st, zs[i].varName))

\* A loop without its safety net.
LoopCondNoCap == Len(statements) # Len(zodSchemas)

\* A loop that runs one round more.
LoopCondInclusive == Len(statements) # Len(zodSchemas) /\ n <= maxRun

\* A loop that stops one round early.
LoopCondOffByOne == Len(statements) # Len(zodSchemas) /\ n + 1 < maxRun

\* statements.size !== zodSchemas.length && n < maxRun
LoopCond == Len(statements) # Len(zodSchemas) /\ n < maxRun

\* ------------------------------------------------------------------ inputs
RECURSIVE SumCard(_, _)
SumCard(dp, k) == IF k = 0 THEN 0 ELSE Cardinality(dp[k]) + SumCard(dp, k - 1)

\* The type names of k candidates, up to renaming: the i-th name of
\* TypeNames appears only after the names before it.  Repeated names are
\* kept (an interface declared twice).
CanonicalNames(k) ==
  {tn \in [1..k -> Range(TypeNames)] :
     \A i \in 1..k : \E j \in 1..Len(TypeNames) :
        /\ tn[i] = TypeNames[j]
        /\ \A h \in 1..(j - 1) : \E m \in 1..(i - 1) : tn[m] = TypeNames[h]}

\* The dependency lists of k candidates (as sets: the code reads them only
\* through includes() and filter().length).
DependencyChoices(k) ==
  {dp \in [1..k -> SUBSET VarNames] : SumCard(dp, k) <= MaxEdges}

\* What nodes.map() builds for one declaration.
Candidate(i, typeName, dependencies) ==
  [typeName |-> typeName,
   varName |-> getSchemaName(typeName),
   dependencies |-> dependencies,
   statement |-> [of |-> i, lazy |-> FALSE]]

Init ==
  /\ \E k \in 0..MaxCands : \E tn \in CanonicalNames(k) : \E dp \in DependencyChoices(k) :
       zodSchemas = [i \in 1..k |-> Candidate(i, tn[i], dp[i])]
  /\ maxRun \in (-1)..MaxRun
  /\ statements = <<>>
  /\ typeImports = <<>>
  /\ n = 0
  /\ pc = "while"
  /\ todo = <<>>
  /\ errors = <<>>
  /\ imports = <<>>
  /\ hasCircularDependencies = FALSE
  /\ log = <<>>
  /\ run = 1
  /\ prev = <<>>

\* ----------------------------------------------------------------- actions
\* The while test holds: filter() fixes the candidates this round visits.
BeginRound ==
  /\ pc = "while"
  /\ LoopCond
  /\ todo' = Unresolved(zodSchemas, statements)
  /\ pc' = "forEach"
  /\ UNCHANGED <<zodSchemas, maxRun, statements, typeImports, n, errors,
                 imports, hasCircularDependencies, log, run, prev>>

\* A forEach that visits the candidates of the round in no fixed order.
ExamineAnyOrder ==
  /\ pc = "forEach"
  /\ todo # <<>>
  /\ \E k \in DOMAIN todo :
       LET i == todo[k]
           c == zodSchemas[i]
           v == IF isCircular(c)
                  THEN transformRecursiveSchema(c.statement, c.typeName)
                  ELSE c.statement
       IN /\ IF missingDependencies(c, statements) = {}
               THEN /\ typeImports' = IF isCircular(c)
                                        THEN SetAdd(typeImports, c.typeName)
                                        ELSE typeImports
                    /\ statements' = MapSet(statements, c.varName,
                                            [value |-> v, typeName |-> c.typeName])
                    /\ log' = Append(log, [cand |-> i, round |-> n + 1, value |-> v])
               ELSE UNCHANGED <<statements, typeImports, log>>
          /\ todo' = [m \in 1..(Len(todo) - 1) |-> IF m < k THEN todo[m] ELSE todo[m + 1]]
  /\ UNCHANGED <<zodSchemas, maxRun, n, pc, errors, imports,
                 hasCircularDependencies, run, prev>>

\* One invocation of the forEach callback, on the next candidate of the round.
Examine ==
  /\ pc = "forEach"
  /\ todo # <<>>
  /\ LET i == Head(todo)
         c == zodSchemas[i]
     IN IF missingDependencies(c, statements) = {}
          THEN IF isCircular(c)
                 THEN /\ typeImports' = SetAdd(typeImports, c.typeName)
                      /\ statements' =
                           MapSet(statements, c.varName,
                                  [value |-> transformRecursiveSchema(c.statement, c.typeName),
                                   typeName |-> c.typeName])
                      /\ log' = Append(log, [cand |-> i, round |-> n + 1,
                                             value |-> transformRecursiveSchema(c.statement, c.typeName)])
                 ELSE /\ statements' =
                           MapSet(statements, c.varName,
                                  [value |-> c.statement, typeName |-> c.typeName])
                      /\ log' = Append(log, [cand |-> i, round |-> n + 1,
                                             value |-> c.statement])
                      /\ UNCHANGED typeImports
          ELSE UNCHANGED <<statements, typeImports, log>>
  /\ todo' = Tail(todo)
  /\ UNCHANGED <<zodSchemas, maxRun, n, pc, errors, imports,
                 hasCircularDependencies, run, prev>>

\* The forEach is over: n++.
EndRound ==
  /\ pc = "forEach"
  /\ todo = <<>>
  /\ n' = n + 1
  /\ pc' = "while"
  /\ UNCHANGED <<zodSchemas, maxRun, statements, typeImports, todo, errors,
                 imports, hasCircularDependencies, log, run, prev>>

\* A report that looks the candidates up by typeName.
missingStatementsByTypeName ==
  SelectSeq([i \in DOMAIN zodSchemas |-> i],
            LAMBDA i : ~MapHas(statements, zodSchemas[i].typeName))

\* zodSchemas.filter(({ varName }) => !statements.has(varName)) after the loop
missingStatements == Unresolved(zodSchemas, statements)

\* The while test fails: the report is built and generate returns.  An entry
\* of errors is modelled by the list of names its message holds.
Return ==
  /\ pc = "while"
  /\ ~LoopCond
  /\ errors' = IF Len(missingStatements) # 0
                 THEN <<[k \in DOMAIN missingStatements |->
                           zodSchemas[missingStatements[k]].varName]>>
                 ELSE <<>>
  /\ imports' = typeImports
  /\ hasCircularDependencies' = (Len(typeImports) > 0)
  /\ pc' = "done"
  /\ UNCHANGED <<zodSchemas, maxRun, statements, typeImports, n, todo, log, run, prev>>

Next == BeginRound \/ Examine \/ EndRound \/ Return

Spec == Init /\ [][Next]_vars

\* The code is sequential: a step that can be taken is taken.
LiveSpec == Spec /\ WF_vars(Next)

\* What a call of generate leaves behind.
Result ==
  [statements |-> statements, typeImports |-> typeImports, errors |-> errors,
   imports |-> imports, hasCircularDependencies |-> hasCircularDependencies]

\* generate is called a second time with the same sourceText and options:
\* the first call's result is kept aside and the locals start afresh.
Rerun ==
  /\ pc = "done"
  /\ run = 1
  /\ prev' = <<Result>>
  /\ run' = 2
  /\ statements' = <<>>
  /\ typeImports' = <<>>
  /\ n' = 0
  /\ pc' = "while"
  /\ todo' = <<>>
  /\ errors' = <<>>
  /\ imports' = <<>>
  /\ hasCircularDependencies' = FALSE
  /\ log' = <<>>
  /\ UNCHANGED <<zodSchemas, maxRun>>

NextTwice == Next \/ Rerun

SpecTwice == Init /\ [][NextTwice]_vars

\* ------------------------------------------------- vocabulary of the claims
Keys(st) == {st[p].key : p \in DOMAIN st}

\* The candidate whose statement the entry at position p holds.
Holder(p) == zodSchemas[statements[p].val.value.of]

Max(S) == IF S = {} THEN 0 ELSE CHOOSE x \in S : \A y \in S : y <= x

UniqueVarNames(zs) ==
  \A i, j \in DOMAIN zs : zs[i].varName = zs[j].varName => i = j

NoSelfReference(zs) == \A i \in DOMAIN zs : zs[i].varName \notin zs[i].dependencies

DependenciesAreCandidates(zs) ==
  \A i \in DOMAIN zs : \A d \in zs[i].dependencies : \E j \in DOMAIN zs : zs[j].varName = d

\* The candidates that candidate i depends on.
DepsOf(zs, i) == {j \in DOMAIN zs : zs[j].varName \in zs[i].dependencies}

\* Number of candidates on the longest dependency path that starts at i and
\* has at most fuel candidates.
RECURSIVE PathLen(_, _, _)
PathLen(zs, i, fuel) ==
  IF fuel = 0 THEN 0
  ELSE 1 + Max({PathLen(zs, j, fuel - 1) : j \in DepsOf(zs, i)})

Acyclic(zs) == \A i \in DOMAIN zs : PathLen(zs, i, Len(zs) + 1) <= Len(zs)

LongestChain(zs) == Max({PathLen(zs, i, Len(zs)) : i \in DOMAIN zs})

\* The indices of the candidates whose varName is not a key of the mapping.
UnresolvedSet == {i \in DOMAIN zodSchemas : zodSchemas[i].varName \notin Keys(statements)}

\* The k-th smallest element of a set of numbers.
Kth(S, k) == CHOOSE i \in S : Cardinality({j \in S : j < i}) = k - 1

\* ------------------------------------------------------------------- C1
\* C1: every entry of the resolved mapping has each dependency of its
\* candidate, other than the candidate's own varName, as a key that sits
\* strictly earlier in insertion order.
C1_DependenciesDeclaredEarlier ==
  \A p \in DOMAIN statements :
    \A d \in Holder(p).dependencies \ {Holder(p).varName} :
      \E q \in 1..(p - 1) : statements[q].key = d

\* ------------------------------------------------------------------- C2
AcyclicInput ==
  /\ UniqueVarNames(zodSchemas)
  /\ NoSelfReference(zodSchemas)
  /\ DependenciesAreCandidates(zodSchemas)
  /\ Acyclic(zodSchemas)
  /\ maxRun >= LongestChain(zodSchemas)

\* C2: on an acyclic input with unique names and maxRun at least the longest
\* chain, the round counter never exceeds the longest chain, and generate
\* returns with every candidate resolved and no error.
C2_AcyclicResolvesWithinChainLength ==
  AcyclicInput =>
    /\ n <= LongestChain(zodSchemas)
    /\ pc = "done" =>
         /\ \A i \in DOMAIN zodSchemas : MapHas(statements, zodSchemas[i].varName)
         /\ errors = <<>>

\* A chain of three candidates that needed all three rounds.
C2_Witness ==
  /\ pc = "done"
  /\ AcyclicInput
  /\ LongestChain(zodSchemas) = 3
  /\ n = 3
  /\ Len(statements) = 3

\* ------------------------------------------------------------------- C3
\* C3: when generate has returned, errors is non-empty exactly when some
\* candidate's varName is no key of the mapping, and then it has one entry,
\* the varNames of exactly those candidates in extraction order.
C3_ErrorsListUnresolved ==
  pc = "done" =>
    /\ (errors # <<>>) <=> (UnresolvedSet # {})
    /\ errors # <<>> =>
         /\ Len(errors) = 1
         /\ Len(errors[1]) = Cardinality(UnresolvedSet)
         /\ \A k \in 1..Len(errors[1]) :
              errors[1][k] = zodSchemas[Kth(UnresolvedSet, k)].varName

\* generate returned a resolved part and reported two other candidates.
C3_Witness ==
  /\ pc = "done"
  /\ statements # <<>>
  /\ Len(errors) = 1
  /\ Len(errors[1]) = 2

\* ------------------------------------------------------------------- C4
\* The keys the mapping had when round r began.
KeysBefore(r) == {zodSchemas[log[k].cand].varName : k \in {k \in DOMAIN log : log[k].round < r}}

\* Candidate i lists its own varName, is not resolved when round r begins
\* and has every other dependency resolved by then.
SelfEligibleAt(i, r) ==
  /\ zodSchemas[i].varName \in zodSchemas[i].dependencies
  /\ zodSchemas[i].varName \notin KeysBefore(r)
  /\ zodSchemas[i].dependencies \ {zodSchemas[i].varName} \subseteq KeysBefore(r)

\* Round r stored candidate i in the rewritten form, and its typeName is in
\* the TypeImportSet.
StoredRewrittenIn(i, r) ==
  /\ \E k \in DOMAIN log :
       /\ log[k].cand = i
       /\ log[k].round = r
       /\ log[k].value = [of |-> i, lazy |-> TRUE]
  /\ zodSchemas[i].typeName \in Range(typeImports)

\* Every round that has run to its end stored, rewritten, each candidate
\* that was self-referencing and otherwise satisfied when the round began.
SelfReferenceResolvedNextRound ==
  \A r \in 1..n : \A i \in DOMAIN zodSchemas :
    SelfEligibleAt(i, r) => StoredRewrittenIn(i, r)

\* The input is one declaration that depends on itself only.
SingleSelfReference ==
  /\ Len(zodSchemas) = 1
  /\ zodSchemas[1].dependencies = {zodSchemas[1].varName}

SingleResolved ==
  /\ Len(statements) = 1
  /\ statements[1].key = zodSchemas[1].varName
  /\ statements[1].val.value = [of |-> 1, lazy |-> TRUE]
  /\ hasCircularDependencies
  /\ errors = <<>>

\* C4 as stated: a self-referencing candidate whose other dependencies are
\* resolved is stored, rewritten, by the next round that runs, with its
\* typeName in the TypeImportSet; and a single declaration that depends
\* only on itself is always resolved when generate returns, with
\* hasCircularDependencies true and errors empty.
C4_Original ==
  /\ SelfReferenceResolvedNextRound
  /\ (pc = "done" /\ SingleSelfReference) => SingleResolved

\* C4 as amended: the same, the single declaration being resolved whenever
\* maxRun is at least 1.
C4_SelfReferenceResolved ==
  /\ SelfReferenceResolvedNextRound
  /\ (pc = "done" /\ SingleSelfReference /\ maxRun >= 1) => SingleResolved

\* A self-referencing candidate with another dependency was stored
\* rewritten, in a round after the first.
C4_Witness ==
  /\ pc = "done"
  /\ \E i \in DOMAIN zodSchemas : \E r \in 2..n :
       /\ SelfEligibleAt(i, r)
       /\ zodSchemas[i].dependencies # {zodSchemas[i].varName}
       /\ StoredRewrittenIn(i, r)

\* ------------------------------------------------------------------- C5
\* The candidates whose statement the mapping holds and whose dependencies
\* include their own varName.
ResolvedSelfReferencing ==
  {i \in DOMAIN zodSchemas :
     /\ isCircular(zodSchemas[i])
     /\ \E p \in DOMAIN statements : statements[p].val.value.of = i}

\* C5: the TypeImportSet is exactly the set of typeNames of the resolved
\* self-referencing candidates, and the returned hasCircularDependencies
\* is true exactly when there is such a candidate.
C5_TypeImportsAreResolvedSelfReferences ==
  /\ Range(typeImports) = {zodSchemas[i].typeName : i \in ResolvedSelfReferencing}
  /\ pc = "done" => (hasCircularDependencies <=> ResolvedSelfReferencing # {})

\* ------------------------------------------------------------------- C6
\* Candidates i and j depend on each other, neither on itself, and no other
\* candidate bears the varName of either.
MutualCycle(i, j) ==
  /\ i # j
  /\ zodSchemas[j].varName \in zodSchemas[i].dependencies
  /\ zodSchemas[i].varName \in zodSchemas[j].dependencies
  /\ ~isCircular(zodSchemas[i])
  /\ ~isCircular(zodSchemas[j])
  /\ \A h \in DOMAIN zodSchemas :
       zodSchemas[h].varName \in {zodSchemas[i].varName, zodSchemas[j].varName}
         => h \in {i, j}

\* C6: the two candidates of a mutual cycle without self-reference are never
\* keys of the mapping, and both are named in the error report.
C6_MutualCycleNeverResolves ==
  \A i, j \in DOMAIN zodSchemas :
    MutualCycle(i, j) =>
      /\ zodSchemas[i].varName \notin Keys(statements)
      /\ zodSchemas[j].varName \notin Keys(statements)
      /\ pc = "done" =>
           /\ Len(errors) = 1
           /\ {zodSchemas[i].varName, zodSchemas[j].varName} \subseteq Range(errors[1])

\* generate returned after several rounds with a mutual cycle left over
\* next to a resolved candidate.
C6_Witness ==
  /\ pc = "done"
  /\ n >= 2
  /\ statements # <<>>
  /\ \E i, j \in DOMAIN zodSchemas : MutualCycle(i, j)

\* ------------------------------------------------------------------- C7
\* x, y, z are the three candidates, z depends on y and y on x.
Chain3(x, y, z) ==
  /\ Len(zodSchemas) = 3
  /\ {x, y, z} = 1..3
  /\ UniqueVarNames(zodSchemas)
  /\ zodSchemas[x].dependencies = {}
  /\ zodSchemas[y].dependencies = {zodSchemas[x].varName}
  /\ zodSchemas[z].dependencies = {zodSchemas[y].varName}

C8_LoopTerminatesWithinMaxRun ==
  /\ <>(pc = "done")
  /\ [](n <= Max({maxRun, 0}))
  /\ [](maxRun <= 0 => n = 0 /\ statements = <<>>)
  /\ [][(pc = "while" /\ (Len(statements) = Len(zodSchemas) \/ n >= maxRun))
          => (pc' = "done" /\ n' = n /\ statements' = statements)]_vars
  /\ [][pc # "done"]_vars

\* generate returned at the ceiling with candidates left over.
C8_Witness ==
  /\ pc = "done"
  /\ maxRun >= 2
  /\ n = maxRun
  /\ statements # <<>>
  /\ UnresolvedSet # {}

PosOf(k) == CHOOSE p \in DOMAIN statements : statements[p].key = k

\* The statements.set calls are made in extraction order within a round and
\* round after round.
StoredInExaminationOrder ==
  \A h, k \in DOMAIN log :
    h < k => \/ log[h].round < log[k].round
             \/ log[h].round = log[k].round /\ log[h].cand < log[k].cand

\* C11: of two candidates (with different varNames) stored during the same
\* round, the one earlier in the extraction list is earlier in the mapping's
\* insertion order; and a candidate stored in an earlier round precedes
\* every candidate stored in a later round.
C11_InsertionFollowsExtractionOrder ==
  /\ StoredInExaminationOrder
  /\ \A h, k \in DOMAIN log :
       LET a == zodSchemas[log[h].cand].varName
           b == zodSchemas[log[k].cand].varName
       IN (a # b /\ (\/ log[h].round < log[k].round
                     \/ log[h].round = log[k].round /\ log[h].cand < log[k].cand))
            => PosOf(a) < PosOf(b)

\* ------------------------------------------------------------------ C12
\* C12: a candidate is written into the mapping at most once; an entry of
\* the mapping (statement, typeName, position) is changed by no later step;
\* a stored candidate is not visited again; the set of keys only grows.
C12_ResolvedEntriesAreFrozen ==
  /\ [](\A h, k \in DOMAIN log : log[h].cand = log[k].cand => h = k)
  /\ [](\A k \in DOMAIN todo : \A h \in DOMAIN log : log[h].cand # todo[k])
  /\ [][\A p \in DOMAIN statements :
          p \in DOMAIN statements' /\ statements'[p] = statements[p]]_vars
  /\ [][Keys(statements) \subseteq Keys(statements')]_vars

\* ------------------------------------------------------- the two outputs
\* printer.printNode(ts.EmitHint.Unspecified, node, sourceFile): the text of
\* a node.
print(node) == [text |-> node]

\* The z.infer<> alias of one validator.
generateZodInferredType(aliasName, zodConstName) ==
  [aliasName |-> aliasName, zodConstName |-> zodConstName]

\* One assertion per case, in the order of the cases.
generateIntegrationTests(cases) ==
  [k \in DOMAIN cases |-> [expectType |-> cases[k]]]

\* The closure getZodSchemasFile, called after generate returned: the type
\* import (no line, or one line with its names) and the printed statements.
getZodSchemasFile ==
  [importLine |-> IF Len(imports) # 0 THEN <<imports>> ELSE <<>>,
   body |-> [p \in DOMAIN statements |-> print(statements[p].val.value)]]

\* Test cases built from every candidate, resolved or not.
testCasesOfAllCandidates ==
  generateIntegrationTests(
    [i \in DOMAIN zodSchemas |->
       [zodType |-> getSchemaName(zodSchemas[i].typeName) \o "InferredType",
        tsType |-> "spec." \o zodSchemas[i].typeName]])

\* generateIntegrationTests(Array.from(statements.values()).map(...))
testCases ==
  generateIntegrationTests(
    [p \in DOMAIN statements |->
       [zodType |-> getSchemaName(statements[p].val.typeName) \o "InferredType",
        tsType |-> "spec." \o statements[p].val.typeName]])

\* The closure getIntegrationTestFile: the printed z.infer<> aliases, then
\* the printed test cases.
getIntegrationTestFile ==
  [inferred |->
     [p \in DOMAIN statements |->
        print(generateZodInferredType(
                getSchemaName(statements[p].val.typeName) \o "InferredType",
                "generated." \o getSchemaName(statements[p].val.typeName)))],
   tests |-> [k \in DOMAIN testCases |-> print(testCases[k])]]

\* ------------------------------------------------------------------ C13
\* C13: after the return, the validator statements and the inferred-type /
\* assertion pairs are, item by item, the entries of the mapping in
\* insertion order (the statement stored for the key, the names derived
\* from the stored typeName); no unresolved candidate is in either output;
\* the type import is there exactly when the TypeImportSet is not empty and
\* names each of its typeNames once.
C13_OutputsFollowTheMapping ==
  pc = "done" =>
    LET zf == getZodSchemasFile
        tf == getIntegrationTestFile
    IN /\ Len(zf.body) = Len(statements)
       /\ Len(tf.inferred) = Len(statements)
       /\ Len(tf.tests) = Len(statements)
       /\ \A p \in DOMAIN statements :
            LET i == zf.body[p].text.of
                T == zodSchemas[i].typeName
            IN /\ zodSchemas[i].varName = statements[p].key
               /\ \E k \in DOMAIN log : log[k].cand = i /\ log[k].value = zf.body[p].text
               /\ tf.inferred[p].text.aliasName = getSchemaName(T) \o "InferredType"
               /\ tf.inferred[p].text.zodConstName = "generated." \o statements[p].key
               /\ tf.tests[p].text.expectType.zodType = tf.inferred[p].text.aliasName
               /\ tf.tests[p].text.expectType.tsType = "spec." \o T
       /\ \A p, q \in DOMAIN statements : zf.body[p].text.of = zf.body[q].text.of => p = q
       /\ \A i \in UnresolvedSet :
            /\ \A p \in DOMAIN zf.body : zf.body[p].text.of # i
            /\ \A p \in DOMAIN tf.tests :
                 tf.tests[p].text.expectType.tsType # "spec." \o zodSchemas[i].typeName
            /\ \A p \in DOMAIN tf.inferred :
                 tf.inferred[p].text.zodConstName # "generated." \o zodSchemas[i].varName
       /\ (zf.importLine # <<>>) <=> (typeImports # <<>>)
       /\ zf.importLine # <<>> =>
            /\ Range(zf.importLine[1]) = Range(typeImports)
            /\ \A a, b \in DOMAIN zf.importLine[1] :
                 zf.importLine[1][a] = zf.importLine[1][b] => a = b

\* generate returned two resolved candidates, one of them rewritten, and
\* left a third one out.
C13_Witness ==
  /\ pc = "done"
  /\ Len(statements) = 2
  /\ UnresolvedSet # {}
  /\ typeImports # <<>>

\* ------------------------------------------------------------------ C14
\* The candidates that bear a name candidate i depends on, itself excluded.
Succ(i) ==
  {j \in DOMAIN zodSchemas :
     zodSchemas[j].varName \in zodSchemas[i].dependencies \ {zodSchemas[i].varName}}

RECURSIVE Closure(_, _)
Closure(S, fuel) ==
  IF fuel = 0 THEN S ELSE Closure(S \cup UNION {Succ(j) : j \in S}, fuel - 1)

\* The candidates that i depends on, directly or not.
Reachable(i) == Closure(Succ(i), Len(zodSchemas))

\* Candidate i names a dependency that no candidate bears, or is on a cycle
\* of dependencies other than self-references.
BlockedRoot(i) ==
  \/ \E d \in zodSchemas[i].dependencies \ {zodSchemas[i].varName} :
       \A j \in DOMAIN zodSchemas : zodSchemas[j].varName # d
  \/ i \in Reachable(i)

Starved(i) == \E j \in Reachable(i) \cup {i} : BlockedRoot(j)

\* C14: a candidate with a dependency that is no candidate's varName, and
\* every candidate that depends, directly or not, on such a candidate or on
\* a member of a multi-node cycle, is never stored, its varName never
\* becomes a key, and it is named in the single errors entry.
C14_StarvedCandidatesAreReported ==
  \A i \in DOMAIN zodSchemas :
    Starved(i) =>
      /\ \A k \in DOMAIN log : log[k].cand # i
      /\ zodSchemas[i].varName \notin Keys(statements)
      /\ pc = "done" =>
           /\ Len(errors) = 1
           /\ zodSchemas[i].varName \in Range(errors[1])

\* ------------------------------------------------------------------ C15
\* generate is called a second time on a source text that holds the same
\* declarations in another order, with the same maxRun.  Only inputs with
\* unique varNames and maxRun >= the number of candidates are called again.
RerunPermuted ==
  /\ pc = "done"
  /\ run = 1
  /\ UniqueVarNames(zodSchemas)
  /\ maxRun >= Len(zodSchemas)
  /\ \E perm \in [DOMAIN zodSchemas -> DOMAIN zodSchemas] :
       /\ \A i, j \in DOMAIN zodSchemas : perm[i] = perm[j] => i = j
       /\ zodSchemas' = [i \in DOMAIN zodSchemas |->
                           Candidate(i, zodSchemas[perm[i]].typeName,
                                     zodSchemas[perm[i]].dependencies)]
  /\ prev' = <<Result>>
  /\ run' = 2
  /\ statements' = <<>>
  /\ typeImports' = <<>>
  /\ n' = 0
  /\ pc' = "while"
  /\ todo' = <<>>
  /\ errors' = <<>>
  /\ imports' = <<>>
  /\ hasCircularDependencies' = FALSE
  /\ log' = <<>>
  /\ UNCHANGED maxRun

NextPermuted == Next \/ RerunPermuted

SpecPermuted == Init /\ [][NextPermuted]_vars

\* The varNames an errors value reports.
Reported(e) == IF e = <<>> THEN {} ELSE Range(e[1])

\* C15: with unique varNames and maxRun >= the number of candidates, a run
\* on a permutation of the candidate list resolves the same set of varNames,
\* builds the same TypeImportSet and reports the same set of varNames.
C15_ResultSetsIgnoreExtractionOrder ==
  (run = 2 /\ pc = "done" /\ UniqueVarNames(zodSchemas) /\ maxRun >= Len(zodSchemas)) =>
    /\ Keys(statements) = Keys(prev[1].statements)
    /\ Range(typeImports) = Range(prev[1].typeImports)
    /\ Reported(errors) = Reported(prev[1].errors)

\* The run on the permuted list resolved the same three names in another
\* insertion order, one of them self-referencing.
C15_Witness ==
  /\ run = 2
  /\ pc = "done"
  /\ Len(statements) = 3
  /\ typeImports # <<>>
  /\ Keys(statements) = Keys(prev[1].statements)
  /\ \E p \in DOMAIN statements : statements[p].key # prev[1].statements[p].key

\* ------------------------------------------------------------------ C16
\* Round r has run to its end and stored nothing.
EmptyRound(r) == r \in 1..n /\ \A k \in DOMAIN log : log[k].round # r

Stalled == \E r \in 1..n : EmptyRound(r)

\* C16: after a round that stored nothing, no later round stores anything,
\* no step changes the mapping or the TypeImportSet, and the loop is left
\* only when the counter has reached maxRun.
C16_EmptyRoundIsAFixedPoint ==
  /\ [](\A r \in 1..n : EmptyRound(r) => \A k \in DOMAIN log : log[k].round < r)
  /\ [][Stalled => (statements' = statements /\ typeImports' = typeImports)]_vars
  /\ []((Stalled /\ pc = "done") => n = maxRun)
  /\ [][(Stalled /\ pc = "while" /\ n < maxRun) => pc' = "forEach"]_vars

\* generate returned after a round that stored something and two more
\* rounds that stored nothing.
C16_Witness ==
  /\ pc = "done"
  /\ n = 3
  /\ EmptyRound(2)
  /\ EmptyRound(3)
  /\ statements # <<>>

\* ------------------------------------------------------------------ C17
\* Identifiers of which two differ and get the same schema name.
CollidingTypeNames == {"A", "a", "B"}

\* The names the dependency lists of such declarations hold; the last one
\* is borne by no candidate.
CollidingVarNames ==
  {getSchemaName(t) : t \in CollidingTypeNames} \cup {getSchemaName("C")}

\* Candidate lists in which varNames may collide (type A and type a) or
\* repeat (interface B declared twice).
InitCollide ==
  /\ \E k \in 0..MaxCands : \E tn \in [1..k -> CollidingTypeNames] :
       \E dp \in {d \in [1..k -> SUBSET CollidingVarNames] : SumCard(d, k) <= MaxEdges} :
         zodSchemas = [i \in 1..k |-> Candidate(i, tn[i], dp[i])]
  /\ maxRun \in (-1)..MaxRun
  /\ statements = <<>>
  /\ typeImports = <<>>
  /\ n = 0
  /\ pc = "while"
  /\ todo = <<>>
  /\ errors = <<>>
  /\ imports = <<>>
  /\ hasCircularDependencies = FALSE
  /\ log = <<>>
  /\ run = 1
  /\ prev = <<>>

SpecCollide == InitCollide /\ [][Next]_vars

\* The statements.set calls made for the name v, as indices of log.
StoresOf(v) == {k \in DOMAIN log : zodSchemas[log[k].cand].varName = v}

Min(S) == CHOOSE x \in S : \A y \in S : x <= y

\* Candidates i and j, i before j, share a varName and both were stored
\* (a stored candidate was eligible; namesakes are stored in one round).
SharedAndStored(i, j) ==
  /\ i < j
  /\ zodSchemas[i].varName = zodSchemas[j].varName
  /\ \E h, k \in DOMAIN log : log[h].cand = i /\ log[k].cand = j /\ log[h].round = log[k].round

\* The mapping has one entry for the name v, where the first store of v put
\* it, with the statement and typeName of the last candidate stored for v.
SingleEntryOfTheLater(v) ==
  LET first == Min(StoresOf(v))
      last == Max(StoresOf(v))
  IN /\ Cardinality({p \in DOMAIN statements : statements[p].key = v}) = 1
     /\ PosOf(v) = Cardinality({zodSchemas[log[h].cand].varName : h \in 1..first})
     /\ statements[PosOf(v)].val.value = log[last].value
     /\ statements[PosOf(v)].val.typeName = zodSchemas[log[last].cand].typeName

\* What C17 says in both versions.
CollisionOutcome(i, j) ==
  /\ SingleEntryOfTheLater(zodSchemas[i].varName)
  /\ statements[PosOf(zodSchemas[i].varName)].val.value.of # i
  /\ Len(statements) < Len(zodSchemas)
  /\ pc = "done" =>
       /\ n = maxRun
       /\ \A p \in DOMAIN getZodSchemasFile.body : getZodSchemasFile.body[p].text.of # i

\* C17 as stated: two candidates that share a varName and are eligible in
\* the same round leave one entry, at the position of the first, with the
\* statement and typeName of the later; the mapping stays smaller than the
\* candidate list, the loop runs maxRun rounds, the first one's statement is
\* not emitted, and errors is empty.
C17_Original ==
  \A i, j \in DOMAIN zodSchemas :
    SharedAndStored(i, j) =>
      /\ CollisionOutcome(i, j)
      /\ pc = "done" => errors = <<>>

\* C17 as amended: the same, except that errors does not name the shared
\* varName, and is empty exactly when no other candidate is left unresolved.
C17_CollisionKeepsTheLater ==
  \A i, j \in DOMAIN zodSchemas :
    SharedAndStored(i, j) =>
      /\ CollisionOutcome(i, j)
      /\ pc = "done" =>
           /\ zodSchemas[i].varName \notin Reported(errors)
           /\ (errors = <<>>) <=> (UnresolvedSet = {})

\* Type A and type a collided: the entry holds the statement and typeName
\* of the second, a third candidate came after it, and the loop ran to
\* maxRun without an error.
C17_Witness ==
  /\ pc = "done"
  /\ Len(zodSchemas) = 3
  /\ SharedAndStored(1, 2)
  /\ zodSchemas[1].typeName # zodSchemas[2].typeName
  /\ statements[1].val.typeName = zodSchemas[2].typeName
  /\ statements[1].val.value.of = 2
  /\ Len(statements) = 2
  /\ n = maxRun
  /\ maxRun >= 2
  /\ errors = <<>>

====
